---- MODULE Spec2Model ----
(***************************************************************************)
(* Verification model of the EcommerceEase server (LordCrafter).           *)
(*                                                                         *)
(* Specifications sharing this module:                                     *)
(*   SpecBackend  start-up selection of the storage backend                *)
(*                (server/config.ts, server/storage.ts, server/db.ts,      *)
(*                 server/mysql-db.ts)                                     *)
(*   SpecStore    the three IStorage implementations run side by side      *)
(*                (server/storage.ts, server/db-storage.ts,                *)
(*                 server/mysql-storage.ts)                                *)
(*   SpecLogin    registration, login and logout (server/auth.ts)          *)
(*   SpecGuard    the role guards of the routes (server/routes.ts)         *)
(*   Spec         cart and order flow, one step per awaited storage call   *)
(*                (server/routes.ts)                                       *)
(*   SpecCatalogue  category and product routes next to the order flow     *)
(*                (server/routes.ts)                                       *)
(*   SpecReview   posting and deleting reviews (server/routes.ts)          *)
(*   SpecSeed     scripts/seed-data.ts next to login (server/auth.ts)      *)
(*   SpecStock    two checkouts interleaved (server/routes.ts)             *)
(* Variables a specification does not use keep their initial value.        *)
(***************************************************************************)
EXTENDS Integers, Sequences, FiniteSets, TLC

VARIABLES
  \* ---- backend selection -------------------------------------------------
  env,          \* process.env: DB_TYPE, DATABASE_URL, MYSQL_DATABASE
  pgUp,         \* the PostgreSQL server answers connections right now
  mysqlUp,      \* the MySQL server answers connections right now
  phase,        \* "boot" before server/storage.ts is evaluated, then "running"
  bootUp,       \* reachability of both servers when the module was evaluated
  dbType,       \* const dbType = getDatabaseType()        (storage.ts:713)
  storage,      \* export const storage = storageInstance  (storage.ts:789)
  served,       \* number of requests answered since start-up
  \* ---- the three IStorage implementations side by side -------------------
  mem,          \* MemStorage: its Maps and id counters
  pg,           \* the PostgreSQL tables and sequences behind DbStorage
  ret,          \* what the last IStorage call returned from each class
  calls,        \* number of IStorage calls made so far
  \* ---- the HTTP layer ----------------------------------------------------
  data,         \* contents of the exported storage (tables and id counters)
  session,      \* per client: id of the user its session holds, 0 for none
  resp,         \* the last request answered and its response
  req           \* per client: its POST /api/orders request in flight

backendVars == <<env, pgUp, mysqlUp, phase, bootUp, dbType, storage, served>>

storeVars == <<mem, pg, ret, calls>>

httpVars == <<data, session, resp, req>>

vars == <<env, pgUp, mysqlUp, phase, bootUp, dbType, storage, served,
          mem, pg, ret, calls, data, session, resp, req>>

----------------------------------------------------------------------------
(* Bounds                                                                  *)
MaxServed == 2
MaxCalls == 3
NumClients == 2
MaxUsers == 2
MaxCategories == 1
MaxProducts == 1
MaxCarts == 1
NumBrowsers == 1

----------------------------------------------------------------------------
(* process.env                                                             *)

\* An environment variable that is not defined (process.env.X === undefined).
UNSET == "<undefined>"

\* JavaScript truthiness of a string-or-undefined value.
Truthy(v) == v # UNSET /\ v # ""

DbTypeValues == {UNSET, "", "auto", "postgres", "mysql", "sqlite"}
DatabaseUrlValues == {UNSET, "", "postgres://db"}
MysqlDatabaseValues == {UNSET, "ecommerce"}

\* export const DB_TYPE = process.env.DB_TYPE || 'postgres'
DB_TYPE(e) == IF Truthy(e.DB_TYPE) THEN e.DB_TYPE ELSE "postgres"

\* POSTGRES_CONFIG.isAvailable: process.env.DATABASE_URL !== undefined
POSTGRES_CONFIG_isAvailable(e) == e.DATABASE_URL # UNSET

\* MYSQL_CONFIG.isAvailable: process.env.MYSQL_DATABASE !== undefined
MYSQL_CONFIG_isAvailable(e) == e.MYSQL_DATABASE # UNSET

\* getDatabaseType with the MySQL test placed before the PostgreSQL test.
getDatabaseTypeMysqlFirst(e) ==
  IF Truthy(e.DB_TYPE) /\ e.DB_TYPE # "auto" THEN e.DB_TYPE
  ELSE IF MYSQL_CONFIG_isAvailable(e) THEN "mysql"
  ELSE IF POSTGRES_CONFIG_isAvailable(e) THEN "postgres"
  ELSE "memory"

\* getDatabaseType(): an explicit DB_TYPE other than 'auto' is returned as it
\* is; otherwise PostgreSQL, then MySQL, then memory.
getDatabaseType(e) ==
  IF Truthy(e.DB_TYPE) /\ e.DB_TYPE # "auto" THEN e.DB_TYPE
  ELSE IF (e.DB_TYPE = "auto" \/ ~Truthy(e.DB_TYPE))
          /\ POSTGRES_CONFIG_isAvailable(e) THEN "postgres"
  ELSE IF (e.DB_TYPE = "auto" \/ ~Truthy(e.DB_TYPE))
          /\ MYSQL_CONFIG_isAvailable(e) THEN "mysql"
  ELSE "memory"

----------------------------------------------------------------------------
(* server/storage.ts, module body                                          *)

\* new DbStorage(): builds a session store over a lazily connecting pool and
\* starts initializeData() without awaiting it; nothing in it throws.
DbStorageCtorThrows == FALSE

\* new MySqlStorage(): builds an in-memory session store; no connection is
\* opened, checkAvailability() is not called.
MySqlStorageCtorThrows == FALSE

\* initPostgresStorage(): defined in storage.ts, called only by
\* initMySqlStorage.
initPostgresStorage == IF DbStorageCtorThrows THEN "MemStorage" ELSE "DbStorage"

\* MySqlStorage.checkAvailability() -> initializeMySql(): the configuration
\* must be present and SELECT 1 must answer.
checkAvailability(e, myUp) == MYSQL_CONFIG_isAvailable(e) /\ myUp

\* initMySqlStorage(): the MySQL -> PostgreSQL -> memory fallback.  The
\* module body below never calls it.
initMySqlStorage(e, myUp) ==
  IF MySqlStorageCtorThrows \/ ~checkAvailability(e, myUp)
    THEN IF POSTGRES_CONFIG_isAvailable(e) THEN initPostgresStorage
         ELSE "MemStorage"
    ELSE "MySqlStorage"

\* The module body with the 'mysql' branch falling through to the memory
\* branch.
storageInstanceNoMysql(t) ==
  IF t = "postgres" THEN (IF DbStorageCtorThrows THEN "MemStorage" ELSE "DbStorage")
  ELSE "MemStorage"

\* try { if (dbType === 'postgres') ... else if (dbType === 'mysql') ...
\*       else ... } catch { storageInstance = new MemStorage() }
storageInstance(t) ==
  IF t = "postgres" THEN (IF DbStorageCtorThrows THEN "MemStorage" ELSE "DbStorage")
  ELSE IF t = "mysql" THEN (IF MySqlStorageCtorThrows THEN "MemStorage" ELSE "MySqlStorage")
  ELSE "MemStorage"

\* A request handler that re-runs the fallback chain when the backend it was
\* given is down.
storageOfRequestWithRetry(s, e, pUp, myUp) ==
  IF s = "MySqlStorage" /\ ~myUp THEN initMySqlStorage(e, myUp)
  ELSE IF s = "DbStorage" /\ ~pUp THEN "MemStorage"
  ELSE s

\* import { storage } from "./storage": every handler uses the module's one
\* exported constant, whatever the servers' state.
storageOfRequest(s, e, pUp, myUp) == s

Clients == 1..NumClients

\* The clients that use the account and catalogue routes.
Browsers == 1..NumBrowsers

\* No user: req.user undefined, a lookup that found nothing.
NoUser == [id |-> 0, username |-> "", password |-> "", role |-> ""]

\* No request parameters.
NoArg == [username |-> "", password |-> "", id |-> 0]

\* The tables of a freshly constructed storage (the sample categories that
\* initializeData inserts are left out).
EmptyData ==
  [users |-> {}, userIdCounter |-> 1,
   sellers |-> {}, sellerIdCounter |-> 1,
   categories |-> {}, categoryIdCounter |-> 1,
   products |-> {}, productIdCounter |-> 1,
   carts |-> {}, cartIdCounter |-> 1,
   cartItems |-> {}, cartItemIdCounter |-> 1,
   orders |-> {}, orderIdCounter |-> 1,
   orderItems |-> {}, orderItemIdCounter |-> 1,
   payments |-> {}, paymentIdCounter |-> 1,
   shipments |-> {}, shipmentIdCounter |-> 1,
   productCategories |-> {}, productCategoryIdCounter |-> 1,
   reviews |-> {}, reviewIdCounter |-> 1]

\* A product that is not there, and a request body without fields.
NoProduct == [id |-> 0, seller_id |-> 0, status |-> "", price |-> 0, stock |-> 0]

NoBody == [valid |-> TRUE, customer_id |-> 0, total_price |-> -1]

\* No POST /api/orders request of the client is in flight.  The fields are
\* the handler's local variables; writes lists the storage writes the
\* request has made, skipped the cart items its item loop passed over.
\* pc "respond": the handler is answering with status.
NoRequest ==
  [pc |-> "idle", user |-> 0, cart |-> 0, cartItems |-> <<>>,
   i |-> 0, totalPrice |-> 0, order |-> 0, product |-> NoProduct,
   writes |-> <<>>, skipped |-> {}, status |-> 0]

\* The HTTP layer before any request.
HttpIdle ==
  /\ data = EmptyData
  /\ session = [c \in Clients |-> 0]
  /\ resp = [tick |-> 0, client |-> 0, route |-> "none", status |-> 0,
             ran |-> FALSE, arg |-> NoArg]
  /\ req = [c \in Clients |-> NoRequest]

\* The side-by-side storages, untouched.
StoreIdle ==
  /\ mem = [users |-> {}, userIdCounter |-> 1,
            categories |-> {}, categoryIdCounter |-> 1,
            productCategories |-> {}, productCategoryIdCounter |-> 1]
  /\ pg = [users |-> {}, usersSeq |-> 1,
           categories |-> {}, categoriesSeq |-> 1,
           productCategories |-> {}, productCategoriesSeq |-> 1]
  /\ ret = [call |-> "none", mem |-> [tag |-> "none", id |-> 0, name |-> ""],
            db |-> [tag |-> "none", id |-> 0, name |-> ""],
            mysql |-> [tag |-> "none", id |-> 0, name |-> ""]]
  /\ calls = 0

BackendInit ==
  /\ env \in [DB_TYPE: DbTypeValues, DATABASE_URL: DatabaseUrlValues,
              MYSQL_DATABASE: MysqlDatabaseValues]
  /\ pgUp \in BOOLEAN
  /\ mysqlUp \in BOOLEAN
  /\ phase = "boot"
  /\ bootUp = [pg |-> FALSE, mysql |-> FALSE]
  /\ dbType = "none"
  /\ storage = "none"
  /\ served = 0
  /\ StoreIdle
  /\ HttpIdle

\* Evaluation of server/storage.ts (lines 712-790) at start-up.
LoadStorageModule ==
  /\ phase = "boot"
  /\ phase' = "running"
  /\ bootUp' = [pg |-> pgUp, mysql |-> mysqlUp]
  /\ dbType' = getDatabaseType(env)
  /\ storage' = storageInstance(getDatabaseType(env))
  /\ UNCHANGED <<env, pgUp, mysqlUp, served>>
  /\ UNCHANGED storeVars
  /\ UNCHANGED httpVars

\* A database server goes down or comes back.
ConnectionChange ==
  /\ \/ pgUp' = ~pgUp /\ UNCHANGED mysqlUp
     \/ mysqlUp' = ~mysqlUp /\ UNCHANGED pgUp
  /\ UNCHANGED <<env, phase, bootUp, dbType, storage, served>>
  /\ UNCHANGED storeVars
  /\ UNCHANGED httpVars

\* Any route handler: it reaches the data through the imported storage.
HandleRequest ==
  /\ phase = "running"
  /\ served < MaxServed
  /\ served' = served + 1
  /\ storage' = storageOfRequest(storage, env, pgUp, mysqlUp)
  /\ UNCHANGED <<env, pgUp, mysqlUp, phase, bootUp, dbType>>
  /\ UNCHANGED storeVars
  /\ UNCHANGED httpVars

BackendNext ==
  \/ LoadStorageModule
  \/ ConnectionChange
  \/ HandleRequest

SpecBackend == BackendInit /\ [][BackendNext]_vars

----------------------------------------------------------------------------
(* The IStorage implementations: MemStorage (server/storage.ts), DbStorage  *)
(* (server/db-storage.ts) and MySqlStorage (server/mysql-storage.ts).       *)
(* Rows carry the columns the calls below look at: id and the name column   *)
(* (users.username, categories.category_name); a product_categories row     *)
(* carries product_id and category_id.  Product 1 exists in every backend.  *)

Usernames == {"alice", "Alice"}
CategoryNames == {"Books", "books"}
RowIds == 1..2
ProductIds == {1}

\* String.prototype.toLowerCase on the strings of the model.
toLowerCase(str) ==
  CASE str = "Alice" -> "alice"
    [] str = "Books" -> "books"
    [] OTHER -> str

\* What a call returned.
Row(r) == [tag |-> "row", id |-> r.id, name |-> r.name]
PcRow(r) == [tag |-> "row", id |-> r.id, name |-> ""]
Undefined == [tag |-> "undefined", id |-> 0, name |-> ""]
True == [tag |-> "true", id |-> 0, name |-> ""]
False == [tag |-> "false", id |-> 0, name |-> ""]
Throws == [tag |-> "throws", id |-> 0, name |-> ""]
NoCall == [tag |-> "none", id |-> 0, name |-> ""]

\* rows[0] / Array.prototype.find over rows kept in insertion order: the row
\* with the smallest id among the matches, undefined when there is none.
First(rows) ==
  IF rows = {} THEN Undefined
  ELSE Row(CHOOSE r \in rows : \A q \in rows : r.id <= q.id)

\* ---- MemStorage ----------------------------------------------------------

MemStorage_createUser(m, username) ==
  [st |-> [m EXCEPT !.users = @ \cup {[id |-> m.userIdCounter, name |-> username]},
                    !.userIdCounter = @ + 1],
   r |-> Row([id |-> m.userIdCounter, name |-> username])]

\* Map.prototype.delete: true exactly when the key was present.
MemStorage_deleteUser(m, id) ==
  [st |-> [m EXCEPT !.users = {u \in @ : u.id # id}],
   r |-> IF \E u \in m.users : u.id = id THEN True ELSE False]

\* MemStorage.getUserByUsername compares the lower-cased names.
MemStorage_getUserByUsername(m, username) ==
  [st |-> m,
   r |-> First({u \in m.users : toLowerCase(u.name) = toLowerCase(username)})]

MemStorage_createCategory(m, name) ==
  [st |-> [m EXCEPT !.categories = @ \cup {[id |-> m.categoryIdCounter, name |-> name]},
                    !.categoryIdCounter = @ + 1],
   r |-> Row([id |-> m.categoryIdCounter, name |-> name])]

MemStorage_getCategoryByName(m, name) ==
  [st |-> m,
   r |-> First({c \in m.categories : toLowerCase(c.name) = toLowerCase(name)})]

MemStorage_deleteCategory(m, id) ==
  [st |-> [m EXCEPT !.categories = {c \in @ : c.id # id}],
   r |-> IF \E c \in m.categories : c.id = id THEN True ELSE False]

MemStorage_assignProductToCategory(m, productId, categoryId) ==
  LET existing == {pc \in m.productCategories :
                     pc.product_id = productId /\ pc.category_id = categoryId}
      new == [id |-> m.productCategoryIdCounter, product_id |-> productId,
              category_id |-> categoryId]
  IN IF existing # {}
       THEN [st |-> m, r |-> PcRow(CHOOSE pc \in existing : TRUE)]
       ELSE [st |-> [m EXCEPT !.productCategories = @ \cup {new},
                              !.productCategoryIdCounter = @ + 1],
             r |-> PcRow(new)]

MemStorage_removeProductFromCategory(m, productId, categoryId) ==
  LET entry == {pc \in m.productCategories :
                  pc.product_id = productId /\ pc.category_id = categoryId}
  IN IF entry = {} THEN [st |-> m, r |-> False]
     ELSE [st |-> [m EXCEPT !.productCategories = @ \ entry], r |-> True]

\* ---- DbStorage over PostgreSQL ------------------------------------------
\* users.username is UNIQUE (schema.ts:8); a serial column takes the next
\* sequence value on every INSERT, also on one that fails;
\* product_categories references categories with ON DELETE CASCADE and is
\* UNIQUE on (product_id, category_id) (schema.ts:75-83).

DbStorage_createUser(t, username) ==
  IF \E u \in t.users : u.name = username
    THEN [st |-> [t EXCEPT !.usersSeq = @ + 1], r |-> Throws]
    ELSE [st |-> [t EXCEPT !.users = @ \cup {[id |-> t.usersSeq, name |-> username]},
                           !.usersSeq = @ + 1],
          r |-> Row([id |-> t.usersSeq, name |-> username])]

\* "return true": the DELETE completed, whether or not a row matched.
DbStorage_deleteUser(t, id) ==
  [st |-> [t EXCEPT !.users = {u \in @ : u.id # id}], r |-> True]

\* eq(schema.users.username, username): SQL =, exact on text.
DbStorage_getUserByUsername(t, username) ==
  [st |-> t, r |-> First({u \in t.users : u.name = username})]

DbStorage_createCategory(t, name) ==
  [st |-> [t EXCEPT !.categories = @ \cup {[id |-> t.categoriesSeq, name |-> name]},
                    !.categoriesSeq = @ + 1],
   r |-> Row([id |-> t.categoriesSeq, name |-> name])]

DbStorage_getCategoryByName(t, name) ==
  [st |-> t, r |-> First({c \in t.categories : c.name = name})]

DbStorage_deleteCategory(t, id) ==
  [st |-> [t EXCEPT !.categories = {c \in @ : c.id # id},
                    !.productCategories = {pc \in @ : pc.category_id # id}],
   r |-> True]

DbStorage_assignProductToCategory(t, productId, categoryId) ==
  LET existing == {pc \in t.productCategories :
                     pc.product_id = productId /\ pc.category_id = categoryId}
      new == [id |-> t.productCategoriesSeq, product_id |-> productId,
              category_id |-> categoryId]
  IN IF existing # {}
       THEN [st |-> t, r |-> PcRow(CHOOSE pc \in existing : TRUE)]
     ELSE IF ~ \E c \in t.categories : c.id = categoryId
       THEN [st |-> [t EXCEPT !.productCategoriesSeq = @ + 1], r |-> Throws]
     ELSE [st |-> [t EXCEPT !.productCategories = @ \cup {new},
                            !.productCategoriesSeq = @ + 1],
           r |-> PcRow(new)]

DbStorage_removeProductFromCategory(t, productId, categoryId) ==
  [st |-> [t EXCEPT !.productCategories =
               {pc \in @ : ~(pc.product_id = productId /\ pc.category_id = categoryId)}],
   r |-> True]

\* ---- MySqlStorage --------------------------------------------------------
\* server/mysql-db.ts: "export const db = realDb || dummyDb" is evaluated
\* while realDb is still null, and initializeMySql() assigns realDb, never
\* db: the db that MySqlStorage imports is the dummyDb for the whole run.

\* dummyDb.select().from(table) is the array []; .where(...) on it is a call
\* of undefined: TypeError.
dummyDb_select_from_where == Throws

\* dummyDb.insert(table).values(row) is []; result[0].insertId reads a
\* property of undefined: TypeError.
dummyDb_insert_values_insertId == Throws

\* dummyDb.delete(table).where(...) is []: the call completes.
dummyDb_delete_where == True

MySqlStorage_createUser(username) == dummyDb_insert_values_insertId
MySqlStorage_deleteUser(id) == dummyDb_delete_where
MySqlStorage_getUserByUsername(username) == dummyDb_select_from_where
MySqlStorage_createCategory(name) == dummyDb_insert_values_insertId
MySqlStorage_getCategoryByName(name) == dummyDb_select_from_where
MySqlStorage_deleteCategory(id) == dummyDb_delete_where
MySqlStorage_assignProductToCategory(productId, categoryId) == dummyDb_select_from_where
MySqlStorage_removeProductFromCategory(productId, categoryId) == dummyDb_delete_where

\* ---- the same call made on the three implementations --------------------

StoreInit ==
  /\ env = [DB_TYPE |-> UNSET, DATABASE_URL |-> UNSET, MYSQL_DATABASE |-> UNSET]
  /\ pgUp = TRUE
  /\ mysqlUp = TRUE
  /\ phase = "boot"
  /\ bootUp = [pg |-> FALSE, mysql |-> FALSE]
  /\ dbType = "none"
  /\ storage = "none"
  /\ served = 0
  /\ StoreIdle
  /\ HttpIdle

Call(name, m, d, my) ==
  /\ calls < MaxCalls
  /\ calls' = calls + 1
  /\ mem' = m.st
  /\ pg' = d.st
  /\ ret' = [call |-> name, mem |-> m.r, db |-> d.r, mysql |-> my]
  /\ UNCHANGED backendVars
  /\ UNCHANGED httpVars

CallCreateUser ==
  \E username \in Usernames :
    Call("createUser", MemStorage_createUser(mem, username),
         DbStorage_createUser(pg, username), MySqlStorage_createUser(username))

CallDeleteUser ==
  \E id \in RowIds :
    Call("deleteUser", MemStorage_deleteUser(mem, id),
         DbStorage_deleteUser(pg, id), MySqlStorage_deleteUser(id))

CallGetUserByUsername ==
  \E username \in Usernames :
    Call("getUserByUsername", MemStorage_getUserByUsername(mem, username),
         DbStorage_getUserByUsername(pg, username),
         MySqlStorage_getUserByUsername(username))

CallCreateCategory ==
  \E name \in CategoryNames :
    Call("createCategory", MemStorage_createCategory(mem, name),
         DbStorage_createCategory(pg, name), MySqlStorage_createCategory(name))

CallGetCategoryByName ==
  \E name \in CategoryNames :
    Call("getCategoryByName", MemStorage_getCategoryByName(mem, name),
         DbStorage_getCategoryByName(pg, name), MySqlStorage_getCategoryByName(name))

CallDeleteCategory ==
  \E id \in RowIds :
    Call("deleteCategory", MemStorage_deleteCategory(mem, id),
         DbStorage_deleteCategory(pg, id), MySqlStorage_deleteCategory(id))

CallAssignProductToCategory ==
  \E p \in ProductIds, c \in RowIds :
    Call("assignProductToCategory", MemStorage_assignProductToCategory(mem, p, c),
         DbStorage_assignProductToCategory(pg, p, c),
         MySqlStorage_assignProductToCategory(p, c))

CallRemoveProductFromCategory ==
  \E p \in ProductIds, c \in RowIds :
    Call("removeProductFromCategory", MemStorage_removeProductFromCategory(mem, p, c),
         DbStorage_removeProductFromCategory(pg, p, c),
         MySqlStorage_removeProductFromCategory(p, c))

StoreNext ==
  \/ CallCreateUser
  \/ CallDeleteUser
  \/ CallGetUserByUsername
  \/ CallCreateCategory
  \/ CallGetCategoryByName
  \/ CallDeleteCategory
  \/ CallAssignProductToCategory
  \/ CallRemoveProductFromCategory

SpecStore == StoreInit /\ [][StoreNext]_vars

\* C10: every sequence of IStorage calls returns the same results from
\* MemStorage as from DbStorage and MySqlStorage.
C10_SameResultsFromEveryBackend ==
  /\ ret.mem = ret.db
  /\ ret.mem = ret.mysql

----------------------------------------------------------------------------
(* server/auth.ts: sessions, registration, login, logout and the guards.   *)
(* A request or response body is reduced to the fields the handler reads.  *)
(* Every registration carries an e-mail address made of its username, so   *)
(* the e-mail test of /api/register agrees with its username test.         *)

Roles == {"customer", "seller", "admin"}

\* Length of the strings used as request fields.
StrLen(str) ==
  CASE str = "alice" -> 5
    [] str = "Alice" -> 5
    [] str = "secret" -> 6
    [] str = "Secret" -> 6
    [] str = "pw" -> 2
    [] OTHER -> 0

\* loginUserSchema: username z.string().min(3).max(50), password min(6).
loginUserSchema(username, password) ==
  /\ StrLen(username) >= 3
  /\ StrLen(username) <= 50
  /\ StrLen(password) >= 6

\* The pool/db of server/db.ts is the real one only if DATABASE_URL is set
\* and DB_TYPE (default 'postgres') is 'postgres' or 'auto'; else the dummy.
PgPoolIsReal(e) ==
  Truthy(e.DATABASE_URL) /\ DB_TYPE(e) \in {"postgres", "auto"}

\* A call of the exported storage that runs a query completes: always on a
\* MemStorage, on a DbStorage when its db is real and the server answers,
\* never on a MySqlStorage (its db is the dummyDb, see above).
StorageAnswers ==
  \/ storage = "MemStorage"
  \/ storage = "DbStorage" /\ PgPoolIsReal(env) /\ pgUp

\* The user record with the smallest id among rows, NoUser if none.
FirstUser(rows) ==
  IF rows = {} THEN NoUser
  ELSE CHOOSE r \in rows : \A q \in rows : r.id <= q.id

\* storage.getUser(id)
getUser(d, id) == FirstUser({u \in d.users : u.id = id})

\* storage.getUserByUsername(username) on the exported storage: MemStorage
\* compares the lower-cased strings, DbStorage uses SQL =.
getUserByUsername(d, username) ==
  IF storage = "MemStorage"
    THEN FirstUser({u \in d.users : toLowerCase(u.username) = toLowerCase(username)})
    ELSE FirstUser({u \in d.users : u.username = username})

\* comparePasswords(supplied, stored): supplied === stored
comparePasswords(supplied, stored) == supplied = stored

\* storage.createUser: the next id of the counter / serial column.
createUser(d, username, password, role) ==
  [d EXCEPT !.users = @ \cup {[id |-> d.userIdCounter, username |-> username,
                               password |-> password, role |-> role]},
            !.userIdCounter = @ + 1]

\* storage.createSeller
createSeller(d, userId) ==
  [d EXCEPT !.sellers = @ \cup {[id |-> d.sellerIdCounter, user_id |-> userId]},
            !.sellerIdCounter = @ + 1]

\* passport.session(): deserializeUser looks the session's id up with
\* storage.getUser; a failing lookup ends the request with an error, a user
\* that no longer exists leaves the request unauthenticated.
\* Result: [err |-> the lookup threw, user |-> req.user or NoUser].
deserializeUser(d, sid) ==
  IF sid = 0 THEN [err |-> FALSE, user |-> NoUser]
  ELSE IF ~StorageAnswers THEN [err |-> TRUE, user |-> NoUser]
  ELSE [err |-> FALSE, user |-> getUser(d, sid)]

\* The response of a request, recorded.
Respond(c, route, status, ran, arg) ==
  resp' = [tick |-> 1 - resp.tick, client |-> c, route |-> route,
           status |-> status, ran |-> ran, arg |-> arg]

\* POST /api/register
Register(c, username, password, role, shop_name) ==
  LET arg == [username |-> username, password |-> password, id |-> 0]
      s == deserializeUser(data, session[c])
      newId == data.userIdCounter
      roleToCreate == IF role = "" THEN "customer" ELSE role
      created == createUser(data, username, password, roleToCreate)
      withSeller == IF roleToCreate = "seller" /\ shop_name
                      THEN createSeller(created, newId) ELSE created
  IN /\ IF s.err
          THEN Respond(c, "POST /api/register", 500, FALSE, arg)
               /\ UNCHANGED <<data, session>>
        ELSE IF ~loginUserSchema(username, password)
          THEN Respond(c, "POST /api/register", 400, TRUE, arg)
               /\ UNCHANGED <<data, session>>
        ELSE IF ~StorageAnswers
          THEN Respond(c, "POST /api/register", 500, TRUE, arg)
               /\ UNCHANGED <<data, session>>
        ELSE IF getUserByUsername(data, username) # NoUser
          THEN Respond(c, "POST /api/register", 400, TRUE, arg)
               /\ UNCHANGED <<data, session>>
        ELSE /\ data.userIdCounter <= MaxUsers
             /\ data' = withSeller
             /\ session' = [session EXCEPT ![c] = newId]
             /\ Respond(c, "POST /api/register", 201, TRUE, arg)
     /\ UNCHANGED backendVars
     /\ UNCHANGED storeVars
     /\ UNCHANGED req

\* The LocalStrategy verify callback: the user to log in, NoUser for
\* done(null, false), and whether it ended in done(error).
\* With DB_TYPE unset or 'postgres' the users table is first queried through
\* the pool of server/db.ts; an error there is caught and ignored.  The pool
\* is real only when the exported storage is the DbStorage on that database.
verify(d, username, password) ==
  LET direct == IF DB_TYPE(env) = "postgres" /\ PgPoolIsReal(env) /\ pgUp
                  THEN FirstUser({u \in d.users : u.username = username})
                  ELSE NoUser
      user == getUserByUsername(d, username)
  IN IF direct # NoUser /\ password = direct.password
       THEN [err |-> FALSE, user |-> direct]
     ELSE IF ~StorageAnswers THEN [err |-> TRUE, user |-> NoUser]
     ELSE IF user = NoUser THEN [err |-> FALSE, user |-> NoUser]
     ELSE IF ~comparePasswords(password, user.password)
       THEN [err |-> FALSE, user |-> NoUser]
     ELSE [err |-> FALSE, user |-> user]

\* POST /api/login
Login(c, username, password) ==
  LET arg == [username |-> username, password |-> password, id |-> 0]
      s == deserializeUser(data, session[c])
      v == verify(data, username, password)
  IN /\ IF s.err \/ v.err
          THEN Respond(c, "POST /api/login", 500, ~s.err, arg)
               /\ UNCHANGED session
        ELSE IF v.user = NoUser
          THEN Respond(c, "POST /api/login", 401, TRUE, arg)
               /\ UNCHANGED session
        ELSE /\ session' = [session EXCEPT ![c] = v.user.id]
             /\ Respond(c, "POST /api/login", 200, TRUE, arg)
     /\ UNCHANGED data
     /\ UNCHANGED backendVars
     /\ UNCHANGED storeVars
     /\ UNCHANGED req

\* POST /api/logout
Logout(c) ==
  LET s == deserializeUser(data, session[c])
  IN /\ IF s.err
          THEN Respond(c, "POST /api/logout", 500, FALSE, NoArg)
               /\ UNCHANGED session
          ELSE /\ session' = [session EXCEPT ![c] = 0]
               /\ Respond(c, "POST /api/logout", 200, TRUE, NoArg)
     /\ UNCHANGED data
     /\ UNCHANGED backendVars
     /\ UNCHANGED storeVars
     /\ UNCHANGED req

\* The PostgreSQL server goes down or comes back while the server runs.
PgConnectionChange ==
  /\ storage = "DbStorage"
  /\ pgUp' = ~pgUp
  /\ UNCHANGED <<env, mysqlUp, phase, bootUp, dbType, storage, served>>
  /\ UNCHANGED storeVars
  /\ UNCHANGED httpVars

\* ---- registration and login on each backend -----------------------------

LoginEnvs ==
  { [DB_TYPE |-> UNSET, DATABASE_URL |-> UNSET, MYSQL_DATABASE |-> UNSET],
    [DB_TYPE |-> UNSET, DATABASE_URL |-> "postgres://db", MYSQL_DATABASE |-> UNSET],
    [DB_TYPE |-> "mysql", DATABASE_URL |-> UNSET, MYSQL_DATABASE |-> "ecommerce"] }

LoginUsernames == {"alice", "Alice"}
LoginPasswords == {"secret", "Secret"}

\* The server after start-up on one of the configurations.
LoginInit ==
  /\ env \in LoginEnvs
  /\ pgUp = TRUE
  /\ mysqlUp = TRUE
  /\ phase = "running"
  /\ bootUp = [pg |-> TRUE, mysql |-> TRUE]
  /\ dbType = getDatabaseType(env)
  /\ storage = storageInstance(getDatabaseType(env))
  /\ served = 0
  /\ StoreIdle
  /\ HttpIdle

LoginNext ==
  \/ \E c \in Browsers, username \in LoginUsernames,
        password \in LoginPasswords \cup {"pw"},
        role \in {"", "seller"}, shop_name \in BOOLEAN :
       Register(c, username, password, role, shop_name)
  \/ \E c \in Browsers, username \in LoginUsernames, password \in LoginPasswords :
       Login(c, username, password)
  \/ \E c \in Browsers : Logout(c)
  \/ PgConnectionChange

SpecLogin == LoginInit /\ [][LoginNext]_vars

\* C9: POST /api/login authenticates (username, password) if and only if a
\* user with that username exists whose stored password is exactly the
\* supplied one; otherwise it answers 401 and the session is left as it was.
C9_LoginIffUserWithEqualPassword ==
  [][(resp'.tick # resp.tick /\ resp'.route = "POST /api/login") =>
       LET matching == {u \in data.users :
                          /\ u.username = resp'.arg.username
                          /\ u.password = resp'.arg.password}
       IN IF matching # {}
            THEN /\ resp'.status = 200
                 /\ \E u \in matching : session'[resp'.client] = u.id
            ELSE /\ resp'.status = 401
                 /\ session' = session]_vars

----------------------------------------------------------------------------
(* The guards of server/auth.ts and routes they protect in server/routes.ts *)

\* isAuthenticated: 0 stands for next(), otherwise the status answered.
isAuthenticated(user) == IF user # NoUser THEN 0 ELSE 401

\* hasRole with the role test left out.
hasRoleAnyRole(roles, user) == IF user = NoUser THEN 401 ELSE 0

\* hasRole(roles): 401 without a user, 403 for a role outside roles.
hasRole(roles, user) ==
  IF user = NoUser THEN 401
  ELSE IF user.role \notin roles THEN 403
  ELSE 0

\* A request stopped before its handler: by a failed deserializeUser (500)
\* or by the guard (401, 403).  Nothing is written.
Refused(c, route, s, g) ==
  /\ Respond(c, route, IF s.err THEN 500 ELSE g, FALSE, NoArg)
  /\ UNCHANGED <<data, session>>

\* The handler ran and answered without writing.
Answered(c, route, status) ==
  /\ Respond(c, route, status, TRUE, NoArg)
  /\ UNCHANGED <<data, session>>

\* POST /api/categories, hasRole("admin").  valid: the body passes
\* insertCategorySchema.
CreateCategory(c, valid, name) ==
  LET s == deserializeUser(data, session[c])
      g == hasRole({"admin"}, s.user)
      route == "POST /api/categories"
  IN /\ IF s.err \/ g # 0 THEN Refused(c, route, s, g)
        ELSE IF ~valid THEN Answered(c, route, 400)
        ELSE /\ data.categoryIdCounter <= MaxCategories
             /\ data' = [data EXCEPT
                  !.categories = @ \cup {[id |-> data.categoryIdCounter, name |-> name]},
                  !.categoryIdCounter = @ + 1]
             /\ Respond(c, route, 201, TRUE, NoArg)
             /\ UNCHANGED session
     /\ UNCHANGED backendVars
     /\ UNCHANGED storeVars
     /\ UNCHANGED req

\* DELETE /api/categories/:id, hasRole("admin")
DeleteCategory(c, id) ==
  LET s == deserializeUser(data, session[c])
      g == hasRole({"admin"}, s.user)
      route == "DELETE /api/categories/:id"
  IN /\ IF s.err \/ g # 0 THEN Refused(c, route, s, g)
        ELSE IF ~ \E k \in data.categories : k.id = id THEN Answered(c, route, 404)
        ELSE /\ data' = [data EXCEPT !.categories = {k \in @ : k.id # id}]
             /\ Respond(c, route, 204, TRUE, NoArg)
             /\ UNCHANGED session
     /\ UNCHANGED backendVars
     /\ UNCHANGED storeVars
     /\ UNCHANGED req

\* DELETE /api/users/:id, hasRole("admin").  MemStorage.deleteUser removes
\* the user's row only.
DeleteUser(c, id) ==
  LET s == deserializeUser(data, session[c])
      g == hasRole({"admin"}, s.user)
      route == "DELETE /api/users/:id"
  IN /\ IF s.err \/ g # 0 THEN Refused(c, route, s, g)
        ELSE IF getUser(data, id) = NoUser THEN Answered(c, route, 404)
        ELSE /\ data' = [data EXCEPT !.users = {u \in @ : u.id # id}]
             /\ Respond(c, route, 204, TRUE, NoArg)
             /\ UNCHANGED session
     /\ UNCHANGED backendVars
     /\ UNCHANGED storeVars
     /\ UNCHANGED req

\* storage.getSellerByUserId: 0 when the user has no seller profile.
getSellerByUserId(d, userId) ==
  IF \E sl \in d.sellers : sl.user_id = userId
    THEN (CHOOSE sl \in d.sellers :
            sl.user_id = userId
            /\ \A q \in d.sellers : q.user_id = userId => sl.id <= q.id).id
    ELSE 0

\* POST /api/products, hasRole(["seller", "admin"]).  body: valid (it passes
\* insertProductSchema), seller_id, price, stock; no categories field.
\* A seller gets a seller profile created when missing and the product is
\* stored under it with status 'pending'; an admin's product takes the
\* body's seller_id and status 'active'.
CreateProduct(c, body) ==
  LET s == deserializeUser(data, session[c])
      g == hasRole({"seller", "admin"}, s.user)
      route == "POST /api/products"
      user == s.user
      found == getSellerByUserId(data, user.id)
      withSeller == IF user.role = "seller" /\ found = 0
                      THEN createSeller(data, user.id) ELSE data
      sellerId == IF user.role = "seller"
                    THEN (IF found = 0 THEN data.sellerIdCounter ELSE found)
                    ELSE body.seller_id
      product == [id |-> data.productIdCounter, seller_id |-> sellerId,
                  status |-> IF user.role = "admin" THEN "active" ELSE "pending",
                  price |-> body.price, stock |-> body.stock]
  IN /\ IF s.err \/ g # 0 THEN Refused(c, route, s, g)
        ELSE IF ~body.valid THEN Answered(c, route, 400)
        ELSE /\ data.productIdCounter <= MaxProducts
             /\ data' = [withSeller EXCEPT !.products = @ \cup {product},
                                           !.productIdCounter = @ + 1]
             /\ Respond(c, route, 201, TRUE, NoArg)
             /\ UNCHANGED session
     /\ UNCHANGED backendVars
     /\ UNCHANGED storeVars
     /\ UNCHANGED req

\* GET /api/cart, isAuthenticated: creates the user's cart when it has none.
GetCart(c) ==
  LET s == deserializeUser(data, session[c])
      g == isAuthenticated(s.user)
      route == "GET /api/cart"
      hasCart == \E k \in data.carts : k.user_id = s.user.id
  IN /\ IF s.err \/ g # 0 THEN Refused(c, route, s, g)
        ELSE IF hasCart THEN Answered(c, route, 200)
        ELSE /\ data.cartIdCounter <= MaxCarts
             /\ data' = [data EXCEPT
                  !.carts = @ \cup {[id |-> data.cartIdCounter, user_id |-> s.user.id]},
                  !.cartIdCounter = @ + 1]
             /\ Respond(c, route, 200, TRUE, NoArg)
             /\ UNCHANGED session
     /\ UNCHANGED backendVars
     /\ UNCHANGED storeVars
     /\ UNCHANGED req

\* ---- guarded routes with one user of each role ---------------------------

GuardUsers ==
  { [id |-> 1, username |-> "admin", password |-> "admin123", role |-> "admin"],
    [id |-> 2, username |-> "seller", password |-> "seller123", role |-> "seller"],
    [id |-> 3, username |-> "testuser", password |-> "testtest", role |-> "customer"] }

GuardedRoutes ==
  [r \in {"POST /api/categories", "DELETE /api/categories/:id",
          "DELETE /api/users/:id"} |-> {"admin"}]
  @@ [r \in {"POST /api/products"} |-> {"seller", "admin"}]
  @@ [r \in {"GET /api/cart"} |-> Roles]

\* A MemStorage server holding the three users, nobody logged in.
GuardInit ==
  /\ env = [DB_TYPE |-> UNSET, DATABASE_URL |-> UNSET, MYSQL_DATABASE |-> UNSET]
  /\ pgUp = FALSE
  /\ mysqlUp = FALSE
  /\ phase = "running"
  /\ bootUp = [pg |-> FALSE, mysql |-> FALSE]
  /\ dbType = getDatabaseType(env)
  /\ storage = storageInstance(getDatabaseType(env))
  /\ served = 0
  /\ StoreIdle
  /\ data = [EmptyData EXCEPT !.users = GuardUsers, !.userIdCounter = 4]
  /\ session = [c \in Clients |-> 0]
  /\ resp = [tick |-> 0, client |-> 0, route |-> "none", status |-> 0,
             ran |-> FALSE, arg |-> NoArg]
  /\ req = [c \in Clients |-> NoRequest]

GuardNext ==
  \/ \E c \in Browsers, u \in GuardUsers : Login(c, u.username, u.password)
  \/ \E c \in Browsers : Logout(c)
  \/ \E c \in Browsers, valid \in BOOLEAN : CreateCategory(c, valid, "Books")
  \/ \E c \in Browsers, id \in 1..MaxCategories : DeleteCategory(c, id)
  \/ \E c \in Browsers, id \in 1..3 : DeleteUser(c, id)
  \/ \E c \in Browsers, valid \in BOOLEAN, sid \in 1..2 :
       CreateProduct(c, [valid |-> valid, seller_id |-> sid, price |-> 1, stock |-> 1])
  \/ \E c \in Browsers : GetCart(c)

SpecGuard == GuardInit /\ [][GuardNext]_vars

\* C8: a request to a guarded route runs its handler only for an
\* authenticated user whose role is allowed; without a user it answers 401,
\* with a user of another role 403, and in both cases the handler does not
\* run and the storage is unchanged.
C8_GuardedHandlersRunOnlyForAllowedRoles ==
  [][(resp'.tick # resp.tick /\ resp'.route \in DOMAIN GuardedRoutes) =>
       LET user == getUser(data, session[resp'.client])
           allowed == GuardedRoutes[resp'.route]
       IN /\ user = NoUser =>
               resp'.status = 401 /\ ~resp'.ran /\ data' = data
          /\ (user # NoUser /\ user.role \notin allowed) =>
               resp'.status = 403 /\ ~resp'.ran /\ data' = data
          /\ resp'.ran => (user # NoUser /\ user.role \in allowed)]_vars

\* C8 witness: after an admin created a category and a seller a product, a
\* customer's POST /api/categories was refused with 403.
C8_Witness ==
  /\ resp.route = "POST /api/categories"
  /\ resp.status = 403
  /\ ~resp.ran
  /\ data.categories # {}
  /\ data.products # {}

----------------------------------------------------------------------------
(* Backend selection: properties                                           *)

\* A database is available at start-up when its setting holds a value and its
\* server answered at the time server/storage.ts was evaluated.
PgAvailableAtBoot == Truthy(env.DATABASE_URL) /\ bootUp.pg
MysqlAvailableAtBoot == MYSQL_CONFIG_isAvailable(env) /\ bootUp.mysql

\* C3: with DB_TYPE unset or 'auto', getDatabaseType returns 'postgres'
\* whenever DATABASE_URL is defined, otherwise 'mysql' whenever MYSQL_DATABASE
\* is defined, otherwise 'memory'.
C3_AutoDetectionPriority ==
  (phase = "running" /\ env.DB_TYPE \in {UNSET, "auto"}) =>
     dbType = IF env.DATABASE_URL # UNSET THEN "postgres"
              ELSE IF env.MYSQL_DATABASE # UNSET THEN "mysql"
              ELSE "memory"

\* C3 witness: auto-detection ran with both settings defined and chose
\* PostgreSQL over MySQL.
C3_Witness ==
  /\ phase = "running"
  /\ env.DB_TYPE = "auto"
  /\ env.DATABASE_URL # UNSET
  /\ env.MYSQL_DATABASE # UNSET
  /\ dbType = "postgres"

C5_FallsBackToOtherDatabase ==
  phase = "running" =>
     /\ (env.DB_TYPE = "mysql" /\ ~MysqlAvailableAtBoot /\ PgAvailableAtBoot)
           => storage = "DbStorage"
     /\ (env.DB_TYPE = "postgres" /\ ~PgAvailableAtBoot /\ MysqlAvailableAtBoot)
           => storage = "MySqlStorage"

\* C6: when neither database is available at start-up the exported storage
\* is the MemStorage, for every DB_TYPE.
C6_FallsBackToMemory ==
  (phase = "running" /\ ~PgAvailableAtBoot /\ ~MysqlAvailableAtBoot)
     => storage = "MemStorage"

\* C7: once server/storage.ts has been evaluated the exported storage is
\* never replaced, whatever the servers do and however many requests run.
C7_StorageNeverReplaced ==
  [][phase = "running" => storage' = storage]_vars

\* C7 witness: MySQL was up at start-up and is the backend, it has gone down
\* since, and a request was served on the same MySqlStorage.
C7_Witness ==
  /\ phase = "running"
  /\ storage = "MySqlStorage"
  /\ bootUp.mysql
  /\ ~mysqlUp
  /\ POSTGRES_CONFIG_isAvailable(env) /\ pgUp
  /\ served > 0

-----------------------------------------------------------------------------
(* Cart and order flow (server/routes.ts).  POST /api/orders is modelled   *)
(* one step per awaited storage call, so that requests of several clients  *)
(* and the other routes interleave between any two of its calls.           *)

\* Rows sorted by id: the order Array.from(map.values()) gives them in, ids
\* being handed out in increasing order.
RECURSIVE SortById(_)
SortById(rows) ==
  IF rows = {} THEN <<>>
  ELSE LET first == CHOOSE r \in rows : \A q \in rows : r.id <= q.id
       IN <<first>> \o SortById(rows \ {first})

\* storage.getProduct
getProduct(d, id) ==
  IF \E p \in d.products : p.id = id
    THEN CHOOSE p \in d.products : p.id = id
    ELSE NoProduct

\* storage.getCartByUserId: the id of the user's first cart, 0 for undefined.
getCartByUserId(d, userId) ==
  IF \E k \in d.carts : k.user_id = userId
    THEN SortById({k \in d.carts : k.user_id = userId})[1].id
    ELSE 0

\* storage.createCart
createCart(d, userId) ==
  [d EXCEPT !.carts = @ \cup {[id |-> d.cartIdCounter, user_id |-> userId]},
            !.cartIdCounter = @ + 1]

\* storage.getCartItems
getCartItems(d, cartId) == SortById({it \in d.cartItems : it.cart_id = cartId})

\* storage.addCartItem: an item of the same cart and product gets the
\* quantity added, otherwise a row is inserted.
addCartItem(d, cartId, productId, quantity) ==
  IF \E it \in d.cartItems : it.cart_id = cartId /\ it.product_id = productId
    THEN LET existingItem == SortById({it \in d.cartItems :
                                it.cart_id = cartId /\ it.product_id = productId})[1]
         IN [d EXCEPT !.cartItems = (@ \ {existingItem}) \cup
               {[existingItem EXCEPT !.quantity = @ + quantity]}]
    ELSE [d EXCEPT !.cartItems = @ \cup
            {[id |-> d.cartItemIdCounter, cart_id |-> cartId,
              product_id |-> productId, quantity |-> quantity]},
                   !.cartItemIdCounter = @ + 1]

\* storage.removeCartItem
removeCartItem(d, id) == [d EXCEPT !.cartItems = {it \in @ : it.id # id}]

\* storage.createOrder
createOrder(d, customerId, totalPrice) ==
  [d EXCEPT !.orders = @ \cup {[id |-> d.orderIdCounter,
                                customer_id |-> customerId,
                                total_price |-> totalPrice]},
            !.orderIdCounter = @ + 1]

\* storage.addOrderItem
addOrderItem(d, orderId, productId, quantity, price) ==
  [d EXCEPT !.orderItems = @ \cup {[id |-> d.orderItemIdCounter,
                                    order_id |-> orderId,
                                    product_id |-> productId,
                                    quantity |-> quantity, price |-> price]},
            !.orderItemIdCounter = @ + 1]

\* storage.updateProduct(id, {stock}): nothing happens when the row is gone.
updateProduct(d, id, stock) ==
  [d EXCEPT !.products = {IF p.id = id THEN [p EXCEPT !.stock = stock] ELSE p
                            : p \in @}]

\* storage.deleteProduct
deleteProduct(d, id) == [d EXCEPT !.products = {p \in @ : p.id # id}]

\* storage.createPayment
createPayment(d, orderId, amount) ==
  [d EXCEPT !.payments = @ \cup {[id |-> d.paymentIdCounter,
                                  order_id |-> orderId, amount |-> amount]},
            !.paymentIdCounter = @ + 1]

\* storage.createShipment
createShipment(d, orderId) ==
  [d EXCEPT !.shipments = @ \cup {[id |-> d.shipmentIdCounter,
                                   order_id |-> orderId]},
            !.shipmentIdCounter = @ + 1]

\* The foreign keys of shared/schema.ts, which only PostgreSQL enforces:
\* the Maps of MemStorage take any row.
ProductIsReferenced(d, id) ==
  /\ storage = "DbStorage"
  /\ \/ \E it \in d.cartItems : it.product_id = id
     \/ \E oi \in d.orderItems : oi.product_id = id

OrderViolatesForeignKey(d, customerId) ==
  /\ storage = "DbStorage"
  /\ getUser(d, customerId) = NoUser

OrderItemViolatesForeignKey(d, orderId, productId) ==
  /\ storage = "DbStorage"
  /\ \/ getProduct(d, productId) = NoProduct
     \/ ~ \E o \in d.orders : o.id = orderId

\* Bounds of the order flow.
MaxQuantity == 2
MaxCartItems == 2
MaxOrders == 1

\* ---- POST /api/cart/items and DELETE /api/products/:id -------------------

\* POST /api/cart/items, isAuthenticated.  The cart is created before the
\* product is looked up, so it stays when the request answers 404 (no such
\* product) or 400 (less stock than the quantity asked for); 401 and 500
\* from the guard write nothing, 201 adds the item.
AddCartItem(c, productId, quantity) ==
  LET s == deserializeUser(data, session[c])
      g == isAuthenticated(s.user)
      found == getCartByUserId(data, s.user.id)
      withCart == IF found = 0 THEN createCart(data, s.user.id) ELSE data
      cartId == IF found = 0 THEN data.cartIdCounter ELSE found
      product == getProduct(data, productId)
      sameProduct == {it \in data.cartItems :
                        it.cart_id = cartId /\ it.product_id = productId}
  IN /\ IF s.err \/ g # 0 THEN UNCHANGED data
        ELSE IF product = NoProduct \/ product.stock < quantity
          THEN data' = withCart
        ELSE /\ IF sameProduct = {}
                  THEN data.cartItemIdCounter <= MaxCartItems
                  ELSE \A it \in sameProduct : it.quantity + quantity <= MaxQuantity
             /\ data' = addCartItem(withCart, cartId, productId, quantity)
     /\ UNCHANGED <<session, resp, req>>
     /\ UNCHANGED backendVars
     /\ UNCHANGED storeVars

\* DELETE /api/products/:id, hasRole(["seller", "admin"]).  A seller may
\* delete only the products of its own seller profile.  The row is deleted
\* with 204; nothing is written with 401 or 403 from the guard, 404 for no
\* such product, 403 for a seller's foreign product and 500 for a rejected
\* delete.
DeleteProduct(c, id) ==
  LET s == deserializeUser(data, session[c])
      g == hasRole({"seller", "admin"}, s.user)
      product == getProduct(data, id)
      foreign == /\ s.user.role = "seller"
                 /\ getSellerByUserId(data, s.user.id) \notin {product.seller_id} \ {0}
  IN /\ IF \/ s.err \/ g # 0
           \/ product = NoProduct
           \/ foreign
           \/ ProductIsReferenced(data, id)
          THEN UNCHANGED data
          ELSE data' = deleteProduct(data, id)
     /\ UNCHANGED <<session, resp, req>>
     /\ UNCHANGED backendVars
     /\ UNCHANGED storeVars

\* ---- POST /api/orders ----------------------------------------------------

\* The bodies sent: an empty one, one with a field of the wrong type, one
\* with a customer_id and one with a total_price.
OrderBodies ==
  { NoBody,
    [NoBody EXCEPT !.valid = FALSE],
    [NoBody EXCEPT !.customer_id = 1],
    [NoBody EXCEPT !.total_price = 0] }

\* The storage writes of a request, as recorded in req[c].writes.
Write(op, item) == [op |-> op, item |-> item.id, product |-> item.product_id]

NoItem == [id |-> 0, product_id |-> 0]

\* The handler of client c goes on with local variables r.
Continue(c, r) ==
  /\ req' = [req EXCEPT ![c] = r]
  /\ UNCHANGED resp

\* The handler of client c stops here and answers with status.
EndRequest(c, status) ==
  /\ req' = [req EXCEPT ![c].pc = "respond", ![c].status = status]
  /\ UNCHANGED resp

\* A rejected storage call, had the handler deleted the order and its items on an error.
RejectedWithRollback(c) ==
  /\ EndRequest(c, 500)
  /\ data' = [data EXCEPT
        !.orders = {o \in @ : o.id # req[c].order},
        !.orderItems = {oi \in @ : oi.order_id # req[c].order}]

\* A rejected storage call: catch (error) { next(error) }, and the error
\* middleware answers 500.  Nothing is undone.
Rejected(c) ==
  /\ EndRequest(c, 500)
  /\ UNCHANGED data

\* The guard, then const cart = await storage.getCartByUserId(user.id).
PostOrders(c) ==
  LET s == deserializeUser(data, session[c])
      g == isAuthenticated(s.user)
      cart == getCartByUserId(data, s.user.id)
      r == [NoRequest EXCEPT !.user = s.user.id, !.cart = cart]
  IN /\ req[c].pc = "idle"
     /\ data.orderIdCounter <= MaxOrders
     /\ IF s.err \/ g # 0
          THEN req' = [req EXCEPT ![c] =
                         [NoRequest EXCEPT !.pc = "respond",
                                           !.status = IF s.err THEN 500 ELSE g]]
        ELSE IF cart = 0
          THEN req' = [req EXCEPT ![c] = [r EXCEPT !.pc = "respond", !.status = 400]]
        ELSE req' = [req EXCEPT ![c] = [r EXCEPT !.pc = "getCartItems"]]
     /\ UNCHANGED <<data, session, resp>>
     /\ UNCHANGED backendVars
     /\ UNCHANGED storeVars

\* const cartItems = await storage.getCartItems(cart.id)
OrderGetCartItems(c) ==
  LET r == req[c]
      cartItems == getCartItems(data, r.cart)
  IN /\ r.pc = "getCartItems"
     /\ IF ~StorageAnswers THEN Rejected(c)
        ELSE IF Len(cartItems) = 0 THEN EndRequest(c, 400) /\ UNCHANGED data
        ELSE /\ Continue(c, [r EXCEPT !.pc = "verifyStock",
                                      !.cartItems = cartItems, !.i = 1])
             /\ UNCHANGED data
     /\ UNCHANGED session
     /\ UNCHANGED backendVars
     /\ UNCHANGED storeVars

\* One round of the loop that verifies the stock, had the handler taken the
\* item it rejects out of the cart.
OrderVerifyStockDroppingItem(c) ==
  LET r == req[c]
      item == r.cartItems[r.i]
      product == getProduct(data, item.product_id)
      totalPrice == r.totalPrice + product.price * item.quantity
  IN /\ r.pc = "verifyStock"
     /\ IF ~StorageAnswers THEN Rejected(c)
        ELSE IF product = NoProduct \/ product.stock < item.quantity
          THEN EndRequest(c, 400) /\ data' = removeCartItem(data, item.id)
        ELSE IF r.i < Len(r.cartItems)
          THEN /\ Continue(c, [r EXCEPT !.i = @ + 1, !.totalPrice = totalPrice])
               /\ UNCHANGED data
        ELSE /\ Continue(c, [r EXCEPT !.pc = "createOrder", !.i = 1,
                                      !.totalPrice = totalPrice])
             /\ UNCHANGED data
     /\ UNCHANGED session
     /\ UNCHANGED backendVars
     /\ UNCHANGED storeVars

\* One round of the loop that verifies the stock and adds up the total.
OrderVerifyStock(c) ==
  LET r == req[c]
      item == r.cartItems[r.i]
      product == getProduct(data, item.product_id)
      totalPrice == r.totalPrice + product.price * item.quantity
  IN /\ r.pc = "verifyStock"
     /\ IF ~StorageAnswers THEN Rejected(c)
        ELSE IF product = NoProduct \/ product.stock < item.quantity
          THEN EndRequest(c, 400) /\ UNCHANGED data
        ELSE IF r.i < Len(r.cartItems)
          THEN /\ Continue(c, [r EXCEPT !.i = @ + 1, !.totalPrice = totalPrice])
               /\ UNCHANGED data
        ELSE /\ Continue(c, [r EXCEPT !.pc = "createOrder", !.i = 1,
                                      !.totalPrice = totalPrice])
             /\ UNCHANGED data
     /\ UNCHANGED session
     /\ UNCHANGED backendVars
     /\ UNCHANGED storeVars

\* orderData = {order_id, customer_id: user.id, total_price: totalPrice,
\* ...req.body}: a field of the body replaces the one computed before it.
orderData(r, body) ==
  [customer_id |-> IF body.customer_id # 0 THEN body.customer_id ELSE r.user,
   total_price |-> IF body.total_price # -1 THEN body.total_price
                   ELSE r.totalPrice]

\* orderData is built and validated, then
\* const order = await storage.createOrder(validationResult.data).
\* The body of the request is first looked at here, so it is drawn here.
OrderCreateOrder(c, body) ==
  LET r == req[c]
      o == orderData(r, body)
  IN /\ r.pc = "createOrder"
     /\ IF ~body.valid THEN EndRequest(c, 400) /\ UNCHANGED data
        ELSE IF ~StorageAnswers \/ OrderViolatesForeignKey(data, o.customer_id)
          THEN Rejected(c)
        ELSE /\ data' = createOrder(data, o.customer_id, o.total_price)
             /\ Continue(c, [r EXCEPT !.pc = "getProduct",
                                      !.order = data.orderIdCounter,
                                      !.writes = Append(@, Write("createOrder", NoItem))])
     /\ UNCHANGED session
     /\ UNCHANGED backendVars
     /\ UNCHANGED storeVars

\* The local variables after the round of the item loop for cartItems[i].
NextItem(r) ==
  IF r.i < Len(r.cartItems)
    THEN [r EXCEPT !.pc = "getProduct", !.i = @ + 1, !.product = NoProduct]
    ELSE [r EXCEPT !.pc = "createPayment", !.i = 1, !.product = NoProduct]

\* const product = await storage.getProduct(item.product_id); if (product)
OrderGetProduct(c) ==
  LET r == req[c]
      product == getProduct(data, r.cartItems[r.i].product_id)
  IN /\ r.pc = "getProduct"
     /\ IF ~StorageAnswers THEN Rejected(c)
        ELSE IF product = NoProduct
          THEN /\ Continue(c, NextItem([r EXCEPT !.skipped = @ \cup {r.i}]))
               /\ UNCHANGED data
        ELSE /\ Continue(c, [r EXCEPT !.pc = "addOrderItem", !.product = product])
             /\ UNCHANGED data
     /\ UNCHANGED session
     /\ UNCHANGED backendVars
     /\ UNCHANGED storeVars

\* await storage.addOrderItem({order_id, product_id, quantity, price})
OrderAddOrderItem(c) ==
  LET r == req[c]
      item == r.cartItems[r.i]
  IN /\ r.pc = "addOrderItem"
     /\ IF \/ ~StorageAnswers
           \/ OrderItemViolatesForeignKey(data, r.order, item.product_id)
          THEN Rejected(c)
        ELSE /\ data' = addOrderItem(data, r.order, item.product_id,
                                     item.quantity, r.product.price)
             /\ Continue(c, [r EXCEPT !.pc = "updateProduct",
                                      !.writes = Append(@, Write("addOrderItem", item))])
     /\ UNCHANGED session
     /\ UNCHANGED backendVars
     /\ UNCHANGED storeVars

\* await storage.updateProduct(product.id, {stock: product.stock - quantity})
\* with the product read before addOrderItem.
OrderUpdateProduct(c) ==
  LET r == req[c]
      item == r.cartItems[r.i]
  IN /\ r.pc = "updateProduct"
     /\ IF ~StorageAnswers THEN Rejected(c)
        ELSE /\ data' = updateProduct(data, r.product.id,
                                      r.product.stock - item.quantity)
             /\ Continue(c, NextItem([r EXCEPT
                  !.writes = Append(@, Write("updateProduct", item))]))
     /\ UNCHANGED session
     /\ UNCHANGED backendVars
     /\ UNCHANGED storeVars

\* const payment = await storage.createPayment(paymentData)
OrderCreatePayment(c) ==
  LET r == req[c]
  IN /\ r.pc = "createPayment"
     /\ IF ~StorageAnswers THEN Rejected(c)
        ELSE /\ data' = createPayment(data, r.order, r.totalPrice)
             /\ Continue(c, [r EXCEPT !.pc = "createShipment",
                                      !.writes = Append(@, Write("createPayment", NoItem))])
     /\ UNCHANGED session
     /\ UNCHANGED backendVars
     /\ UNCHANGED storeVars

\* const shipment = await storage.createShipment(shipmentData)
OrderCreateShipment(c) ==
  LET r == req[c]
  IN /\ r.pc = "createShipment"
     /\ IF ~StorageAnswers THEN Rejected(c)
        ELSE /\ data' = createShipment(data, r.order)
             /\ Continue(c, [r EXCEPT !.pc = "removeCartItem", !.i = 1,
                                      !.writes = Append(@, Write("createShipment", NoItem))])
     /\ UNCHANGED session
     /\ UNCHANGED backendVars
     /\ UNCHANGED storeVars

\* One round of the loop that clears the cart; after the last round the
\* handler answers 201.
OrderRemoveCartItem(c) ==
  LET r == req[c]
      item == r.cartItems[r.i]
      writes == Append(r.writes, Write("removeCartItem", item))
  IN /\ r.pc = "removeCartItem"
     /\ IF ~StorageAnswers THEN Rejected(c)
        ELSE /\ data' = removeCartItem(data, item.id)
             /\ IF r.i < Len(r.cartItems)
                  THEN Continue(c, [r EXCEPT !.i = @ + 1, !.writes = writes])
                  ELSE /\ req' = [req EXCEPT ![c] = [r EXCEPT !.pc = "respond",
                                    !.status = 201, !.writes = writes]]
                       /\ UNCHANGED resp
     /\ UNCHANGED session
     /\ UNCHANGED backendVars
     /\ UNCHANGED storeVars

\* res.status(...).json(...), or the error middleware after next(error):
\* the response leaves and the request is over.
OrderRespond(c) ==
  /\ req[c].pc = "respond"
  /\ req' = [req EXCEPT ![c] = NoRequest]
  /\ UNCHANGED <<data, session, resp>>
  /\ UNCHANGED backendVars
  /\ UNCHANGED storeVars

\* ---- the shop with two products, a customer and an admin logged in -------

OrderEnvs ==
  { [DB_TYPE |-> UNSET, DATABASE_URL |-> UNSET, MYSQL_DATABASE |-> UNSET],
    [DB_TYPE |-> UNSET, DATABASE_URL |-> "postgres://db", MYSQL_DATABASE |-> UNSET] }

OrderProducts ==
  { [id |-> 1, seller_id |-> 1, status |-> "active", price |-> 2, stock |-> 2],
    [id |-> 2, seller_id |-> 1, status |-> "active", price |-> 3, stock |-> 1] }

\* Client 1 is logged in as testuser, client 2 as admin, any other client
\* is not logged in.
OrderSessions ==
  [c \in Clients |-> IF c = 1 THEN 3 ELSE IF c = 2 THEN 1 ELSE 0]

\* The clients that put products into a cart: the customer.  The admin
\* manages the products, and any client may send POST /api/orders.
Shoppers == {1}

Init ==
  /\ env \in OrderEnvs
  /\ pgUp = TRUE
  /\ mysqlUp = FALSE
  /\ phase = "running"
  /\ bootUp = [pg |-> TRUE, mysql |-> FALSE]
  /\ dbType = getDatabaseType(env)
  /\ storage = storageInstance(getDatabaseType(env))
  /\ served = 0
  /\ StoreIdle
  /\ data = [EmptyData EXCEPT !.users = GuardUsers, !.userIdCounter = 4,
                              !.sellers = {[id |-> 1, user_id |-> 2]},
                              !.sellerIdCounter = 2,
                              !.products = OrderProducts,
                              !.productIdCounter = 3]
  /\ session = OrderSessions
  /\ resp = [tick |-> 0, client |-> 0, route |-> "none", status |-> 0,
             ran |-> FALSE, arg |-> NoArg]
  /\ req = [c \in Clients |-> NoRequest]

Next ==
  \/ \E c \in Shoppers, productId \in 1..2, quantity \in 1..MaxQuantity :
       AddCartItem(c, productId, quantity)
  \/ \E c \in Clients, id \in 1..2 : DeleteProduct(c, id)
  \/ \E c \in Clients : PostOrders(c)
  \/ \E c \in Clients : OrderGetCartItems(c)
  \/ \E c \in Clients : OrderVerifyStock(c)
  \/ \E c \in Clients, body \in OrderBodies : OrderCreateOrder(c, body)
  \/ \E c \in Clients : OrderGetProduct(c)
  \/ \E c \in Clients : OrderAddOrderItem(c)
  \/ \E c \in Clients : OrderUpdateProduct(c)
  \/ \E c \in Clients : OrderCreatePayment(c)
  \/ \E c \in Clients : OrderCreateShipment(c)
  \/ \E c \in Clients : OrderRemoveCartItem(c)
  \/ \E c \in Clients : OrderRespond(c)
  \/ PgConnectionChange

Spec == Init /\ [][Next]_vars

-----------------------------------------------------------------------------
(* Properties of the order flow                                            *)

\* The writes of a request that orders the given cart items, in the order
\* the handler is said to make them.
RECURSIVE ItemWrites(_)
ItemWrites(items) ==
  IF items = <<>> THEN <<>>
  ELSE <<Write("addOrderItem", Head(items)), Write("updateProduct", Head(items))>>
       \o ItemWrites(Tail(items))

ExpectedWrites(items) ==
  <<Write("createOrder", NoItem)>>
  \o ItemWrites(items)
  \o <<Write("createPayment", NoItem), Write("createShipment", NoItem)>>
  \o [k \in 1..Len(items) |-> Write("removeCartItem", items[k])]

IsPrefix(a, b) == Len(a) <= Len(b) /\ a = SubSeq(b, 1, Len(a))

\* The rows of payments and shipments that belong to the order.
PaymentsOf(d, orderId) == {p \in d.payments : p.order_id = orderId}

ShipmentsOf(d, orderId) == {sh \in d.shipments : sh.order_id = orderId}

CallFails(c) ==
  \/ ~StorageAnswers
  \/ /\ req[c].pc = "addOrderItem"
     /\ OrderItemViolatesForeignKey(data, req[c].order,
                                    req[c].cartItems[req[c].i].product_id)

\* C2: when a storage call of POST /api/orders fails after the order was
\* created, the request answers 500, nothing in storage changes in that
\* step, the rows written before (the order, the order items, the payment,
\* the shipment) are still there, and the request makes no further step
\* but sending its answer.
C2_NoRollback ==
  [][\A c \in Clients :
       LET r == req[c]
       IN /\ (r.order # 0 /\ r.pc \notin {"idle", "respond"}
              /\ req'[c] # r /\ CallFails(c)) =>
                /\ req'[c] = [r EXCEPT !.pc = "respond", !.status = 500]
                /\ data' = data
                /\ \E o \in data'.orders : o.id = r.order
                /\ \A k \in 1..Len(r.writes) :
                     /\ r.writes[k].op = "addOrderItem" =>
                          \E oi \in data'.orderItems :
                            /\ oi.order_id = r.order
                            /\ oi.product_id = r.writes[k].product
                     /\ r.writes[k].op = "createPayment" =>
                          PaymentsOf(data', r.order) # {}
                     /\ r.writes[k].op = "createShipment" =>
                          ShipmentsOf(data', r.order) # {}
          /\ (r.pc = "respond" /\ req'[c] # r) =>
                req'[c] = NoRequest /\ data' = data]_vars

\* A request failed after its first order item: the order and the item are
\* stored without a payment.
C2_Witness ==
  \E c \in Clients :
    /\ req[c].pc = "respond"
    /\ req[c].status = 500
    /\ \E o \in data.orders : o.id = req[c].order
    /\ \E oi \in data.orderItems : oi.order_id = req[c].order
    /\ PaymentsOf(data, req[c].order) = {}

-----------------------------------------------------------------------------
(* Category and product routes (server/routes.ts)                          *)

\* { ...row, ...body }: the fields of the body replace those of the row.
Spread(row, body) ==
  [f \in DOMAIN row |-> IF f \in DOMAIN body THEN body[f] ELSE row[f]]

\* storage.getCategory: whether the category is there.
getCategory(d, id) == \E k \in d.categories : k.id = id

\* storage.updateCategory(id, req.body)
updateCategory(d, id, body) ==
  [d EXCEPT !.categories = {IF k.id = id THEN Spread(k, body) ELSE k : k \in @}]

\* storage.updateProduct(id, req.body)
updateProductFields(d, id, body) ==
  [d EXCEPT !.products = {IF p.id = id THEN Spread(p, body) ELSE p : p \in @}]

\* storage.assignProductToCategory: an existing pair is returned as it is.
assignProductToCategory(d, productId, categoryId) ==
  IF \E pc \in d.productCategories :
       pc.product_id = productId /\ pc.category_id = categoryId
    THEN d
    ELSE [d EXCEPT !.productCategories = @ \cup
            {[id |-> d.productCategoryIdCounter, product_id |-> productId,
              category_id |-> categoryId]},
                   !.productCategoryIdCounter = @ + 1]

\* if (user.role === "seller") { const seller = await
\* storage.getSellerByUserId(user.id); if (!seller || seller.id !==
\* product.seller_id) return 403 }
SellerOfOtherProduct(d, user, product) ==
  /\ user.role = "seller"
  /\ \/ getSellerByUserId(d, user.id) = 0
     \/ getSellerByUserId(d, user.id) # product.seller_id

\* PUT /api/categories/:id, had it been guarded by isAuthenticated.
UpdateCategoryByAnyUser(c, id, body) ==
  LET s == deserializeUser(data, session[c])
      g == isAuthenticated(s.user)
      route == "PUT /api/categories/:id"
  IN /\ IF s.err \/ g # 0 THEN Refused(c, route, s, g)
        ELSE IF ~getCategory(data, id) THEN Answered(c, route, 404)
        ELSE /\ data' = updateCategory(data, id, body)
             /\ Respond(c, route, 200, TRUE, NoArg)
             /\ UNCHANGED session
     /\ UNCHANGED backendVars
     /\ UNCHANGED storeVars
     /\ UNCHANGED req

\* PUT /api/categories/:id, hasRole("admin"); the body is not validated.
UpdateCategory(c, id, body) ==
  LET s == deserializeUser(data, session[c])
      g == hasRole({"admin"}, s.user)
      route == "PUT /api/categories/:id"
  IN /\ IF s.err \/ g # 0 THEN Refused(c, route, s, g)
        ELSE IF ~getCategory(data, id) THEN Answered(c, route, 404)
        ELSE /\ data' = updateCategory(data, id, body)
             /\ Respond(c, route, 200, TRUE, NoArg)
             /\ UNCHANGED session
     /\ UNCHANGED backendVars
     /\ UNCHANGED storeVars
     /\ UNCHANGED req

\* The handler ran and answered a request for product id without writing.
AnsweredFor(c, route, status, id) ==
  /\ Respond(c, route, status, TRUE, [NoArg EXCEPT !.id = id])
  /\ UNCHANGED <<data, session>>

\* PUT /api/products/:id, hasRole(["seller", "admin"]).  The body is handed
\* to storage.updateProduct as it came; it has no categories field here.
UpdateProduct(c, id, body) ==
  LET s == deserializeUser(data, session[c])
      g == hasRole({"seller", "admin"}, s.user)
      route == "PUT /api/products/:id"
      product == getProduct(data, id)
  IN /\ IF s.err \/ g # 0 THEN Refused(c, route, s, g)
        ELSE IF product = NoProduct THEN AnsweredFor(c, route, 404, id)
        ELSE IF SellerOfOtherProduct(data, s.user, product)
          THEN AnsweredFor(c, route, 403, id)
        ELSE /\ data' = updateProductFields(data, id, body)
             /\ Respond(c, route, 200, TRUE, [NoArg EXCEPT !.id = id])
             /\ UNCHANGED session
     /\ UNCHANGED backendVars
     /\ UNCHANGED storeVars
     /\ UNCHANGED req

\* DELETE /api/products/:id as DeleteProduct above, with its answer.
RemoveProduct(c, id) ==
  LET s == deserializeUser(data, session[c])
      g == hasRole({"seller", "admin"}, s.user)
      route == "DELETE /api/products/:id"
      product == getProduct(data, id)
  IN /\ IF s.err \/ g # 0 THEN Refused(c, route, s, g)
        ELSE IF product = NoProduct THEN AnsweredFor(c, route, 404, id)
        ELSE IF SellerOfOtherProduct(data, s.user, product)
          THEN AnsweredFor(c, route, 403, id)
        ELSE IF ProductIsReferenced(data, id) THEN AnsweredFor(c, route, 500, id)
        ELSE /\ data' = deleteProduct(data, id)
             /\ Respond(c, route, 204, TRUE, [NoArg EXCEPT !.id = id])
             /\ UNCHANGED session
     /\ UNCHANGED backendVars
     /\ UNCHANGED storeVars
     /\ UNCHANGED req

\* POST /api/products/:productId/categories, hasRole(["seller", "admin"]).
\* categoryId 0 stands for a body without categoryId.
AssignCategory(c, productId, categoryId) ==
  LET s == deserializeUser(data, session[c])
      g == hasRole({"seller", "admin"}, s.user)
      route == "POST /api/products/:productId/categories"
      product == getProduct(data, productId)
  IN /\ IF s.err \/ g # 0 THEN Refused(c, route, s, g)
        ELSE IF categoryId = 0 THEN AnsweredFor(c, route, 400, productId)
        ELSE IF product = NoProduct THEN AnsweredFor(c, route, 404, productId)
        ELSE IF ~getCategory(data, categoryId) THEN AnsweredFor(c, route, 404, productId)
        ELSE IF SellerOfOtherProduct(data, s.user, product)
          THEN AnsweredFor(c, route, 403, productId)
        ELSE /\ data' = assignProductToCategory(data, productId, categoryId)
             /\ Respond(c, route, 201, TRUE, [NoArg EXCEPT !.id = productId])
             /\ UNCHANGED session
     /\ UNCHANGED backendVars
     /\ UNCHANGED storeVars
     /\ UNCHANGED req

\* ---- one browser, catalogue and order routes ----------------------------

\* The bodies sent to PUT /api/categories/:id and PUT /api/products/:id.
CategoryBodies == { [name |-> "Toys"] }

ProductBodies == { [status |-> "active"], [seller_id |-> 2], [stock |-> 0] }

\* The catalogue earlier requests left behind: no product, or one that an
\* admin stored for seller profile 1 or 2 or that the seller stored itself.
CatalogueProducts ==
  { {} } \cup
  { {[id |-> 1, seller_id |-> sid, status |-> st, price |-> 1, stock |-> 1]} :
      sid \in 1..2, st \in {"pending", "active"} }

CatalogueCategories == { {}, {[id |-> 1, name |-> "Books"]} }

\* The one browser that sends the requests.  It puts products into a cart
\* only when it is the customer's.
CatalogueClients == {1}

\* The role of the user the client is logged in as, "" for nobody.
RoleOf(c) == getUser(data, session[c]).role

\* A MemStorage server holding the three users, the seller registered with
\* or without a shop name; the browser is logged in as one of them or as
\* nobody.
CatalogueInit ==
  /\ env = [DB_TYPE |-> UNSET, DATABASE_URL |-> UNSET, MYSQL_DATABASE |-> UNSET]
  /\ pgUp = FALSE
  /\ mysqlUp = FALSE
  /\ phase = "running"
  /\ bootUp = [pg |-> FALSE, mysql |-> FALSE]
  /\ dbType = getDatabaseType(env)
  /\ storage = storageInstance(getDatabaseType(env))
  /\ served = 0
  /\ StoreIdle
  /\ \E withShop \in BOOLEAN, products \in CatalogueProducts,
        categories \in CatalogueCategories :
       data = [EmptyData EXCEPT
                 !.users = GuardUsers, !.userIdCounter = 4,
                 !.sellers = IF withShop THEN {[id |-> 1, user_id |-> 2]} ELSE {},
                 !.sellerIdCounter = IF withShop THEN 2 ELSE 1,
                 !.products = products,
                 !.productIdCounter = 1 + Cardinality(products),
                 !.categories = categories,
                 !.categoryIdCounter = 1 + Cardinality(categories)]
  /\ \E u \in 0..3 :
       session = [c \in Clients |-> IF c \in CatalogueClients THEN u ELSE 0]
  /\ resp = [tick |-> 0, client |-> 0, route |-> "none", status |-> 0,
             ran |-> FALSE, arg |-> NoArg]
  /\ req = [c \in Clients |-> NoRequest]

CatalogueNext ==
  \/ \E c \in CatalogueClients : CreateCategory(c, TRUE, "Books")
  \/ \E c \in CatalogueClients, id \in 1..MaxCategories, body \in CategoryBodies :
       UpdateCategory(c, id, body)
  \/ \E c \in CatalogueClients, id \in 1..MaxCategories : DeleteCategory(c, id)
  \/ \E c \in CatalogueClients, sid \in 1..2 :
       CreateProduct(c, [valid |-> TRUE, seller_id |-> sid, price |-> 1, stock |-> 1])
  \/ \E c \in CatalogueClients, id \in 1..MaxProducts, body \in ProductBodies :
       UpdateProduct(c, id, body)
  \/ \E c \in CatalogueClients, id \in 1..MaxProducts : RemoveProduct(c, id)
  \/ \E c \in CatalogueClients, productId \in 1..MaxProducts, categoryId \in 0..MaxCategories :
       AssignCategory(c, productId, categoryId)
  \/ \E c \in CatalogueClients, productId \in 1..MaxProducts :
       RoleOf(c) = "customer" /\ AddCartItem(c, productId, 1)
  \/ \E c \in CatalogueClients : PostOrders(c)
  \/ \E c \in CatalogueClients : OrderGetCartItems(c)
  \/ \E c \in CatalogueClients : OrderVerifyStock(c)
  \/ \E c \in CatalogueClients : OrderCreateOrder(c, NoBody)
  \/ \E c \in CatalogueClients : OrderGetProduct(c)
  \/ \E c \in CatalogueClients : OrderAddOrderItem(c)
  \/ \E c \in CatalogueClients : OrderUpdateProduct(c)
  \/ \E c \in CatalogueClients : OrderCreatePayment(c)
  \/ \E c \in CatalogueClients : OrderCreateShipment(c)
  \/ \E c \in CatalogueClients : OrderRemoveCartItem(c)
  \/ \E c \in CatalogueClients : OrderRespond(c)

SpecCatalogue == CatalogueInit /\ [][CatalogueNext]_vars

-----------------------------------------------------------------------------
(* Properties of the catalogue routes                                      *)

\* The step is a request, or a step of the order request, of client c.
ActedBy(c) ==
  \/ resp'.tick # resp.tick /\ resp'.client = c
  \/ req'[c] # req[c]

\* C11 as stated: categories change only in a step of an admin's request,
\* products only in a step of a seller's or an admin's request.
C11_CatalogueWritesByRole ==
  [][/\ data'.categories # data.categories =>
          \E c \in Clients : ActedBy(c) /\ RoleOf(c) = "admin"
     /\ data'.products # data.products =>
          \E c \in Clients : ActedBy(c) /\ RoleOf(c) \in {"seller", "admin"}]_vars

\* The products are the same rows but for their stock.
OnlyStockChanged(before, after) ==
  /\ {p.id : p \in before} = {p.id : p \in after}
  /\ \A p \in before, q \in after :
       p.id = q.id => [p EXCEPT !.stock = q.stock] = q

\* C11 amended: categories change only in a step of an admin's request;
\* products change only in a step of a seller's or an admin's request, or
\* in the stock decrement of a POST /api/orders request of any logged-in
\* user, which changes nothing but the stock of the products ordered.
C11_CatalogueWritesByRoleOrCheckout ==
  [][/\ data'.categories # data.categories =>
          \E c \in Clients : ActedBy(c) /\ RoleOf(c) = "admin"
     /\ data'.products # data.products =>
          \/ \E c \in Clients : ActedBy(c) /\ RoleOf(c) \in {"seller", "admin"}
          \/ \E c \in Clients :
               /\ req[c].pc = "updateProduct"
               /\ req'[c] # req[c]
               /\ req[c].user # 0
               /\ OnlyStockChanged(data.products, data'.products)]_vars

\* The customer's checkout has taken the stock of a product to 0 and its
\* PUT /api/products/:id was answered 403.
C11_Witness ==
  /\ resp.client \in Clients
  /\ RoleOf(resp.client) = "customer"
  /\ resp.route = "PUT /api/products/:id"
  /\ resp.status = 403
  /\ \E p \in data.products : p.stock = 0
  /\ data.orderItems # {}

-----------------------------------------------------------------------------
\* Reviews: POST /api/reviews and DELETE /api/reviews/:id.

MaxReviews == 2

\* storage.getReview(id): the row, or a row with id 0 when there is none.
NoReview == [id |-> 0, product_id |-> 0, customer_id |-> 0]

getReview(d, id) ==
  IF \E r \in d.reviews : r.id = id
    THEN CHOOSE r \in d.reviews : r.id = id
    ELSE NoReview

\* storage.createReview
createReview(d, productId, customerId) ==
  [d EXCEPT !.reviews = @ \cup {[id |-> d.reviewIdCounter,
                                 product_id |-> productId,
                                 customer_id |-> customerId]},
            !.reviewIdCounter = @ + 1]

\* storage.deleteReview
deleteReview(d, id) == [d EXCEPT !.reviews = {r \in @ : r.id # id}]

\* storage.getUserReviews
getUserReviews(d, userId) == {r \in d.reviews : r.customer_id = userId}

\* The handler's purchase check: some order of the user holds an item of
\* the product.
hasPurchased(d, userId, productId) ==
  \E o \in d.orders : /\ o.customer_id = userId
                      /\ \E i \in d.orderItems : /\ i.order_id = o.id
                                                 /\ i.product_id = productId

\* POST /api/reviews, isAuthenticated.  productId 0: the body has no
\* product_id; valid: the body passes insertReviewSchema.
CreateReview(c, productId, valid) ==
  LET s == deserializeUser(data, session[c])
      g == isAuthenticated(s.user)
      route == "POST /api/reviews"
  IN /\ data.reviewIdCounter <= MaxReviews
     /\ IF s.err \/ g # 0 THEN Refused(c, route, s, g)
        ELSE IF s.user.role # "customer" THEN Answered(c, route, 403)
        ELSE IF productId = 0 THEN Answered(c, route, 400)
        ELSE IF getProduct(data, productId) = NoProduct THEN Answered(c, route, 404)
        ELSE IF ~hasPurchased(data, s.user.id, productId) THEN Answered(c, route, 403)
        ELSE IF \E r \in getUserReviews(data, s.user.id) : r.product_id = productId
          THEN Answered(c, route, 400)
        ELSE IF ~valid THEN Answered(c, route, 400)
        ELSE /\ data' = createReview(data, productId, s.user.id)
             /\ Respond(c, route, 201, TRUE, NoArg)
             /\ UNCHANGED session
     /\ UNCHANGED backendVars
     /\ UNCHANGED storeVars
     /\ UNCHANGED req

\* DELETE /api/reviews/:id, hasRole(["admin"]).
DeleteReview(c, id) ==
  LET s == deserializeUser(data, session[c])
      g == hasRole({"admin"}, s.user)
      route == "DELETE /api/reviews/:id"
      review == getReview(data, id)
  IN /\ IF s.err \/ g # 0
          THEN /\ Respond(c, route, IF s.err THEN 500 ELSE g, FALSE,
                          [NoArg EXCEPT !.id = id])
               /\ UNCHANGED <<data, session>>
        ELSE IF review = NoReview
          THEN /\ Respond(c, route, 404, TRUE, [NoArg EXCEPT !.id = id])
               /\ UNCHANGED <<data, session>>
        ELSE /\ data' = deleteReview(data, id)
             /\ Respond(c, route, 204, TRUE, [NoArg EXCEPT !.id = id])
             /\ UNCHANGED session
     /\ UNCHANGED backendVars
     /\ UNCHANGED storeVars
     /\ UNCHANGED req

\* The three default users and a second customer.
ReviewUsers ==
  GuardUsers \cup
    { [id |-> 4, username |-> "customer1", password |-> "customer123",
       role |-> "customer"] }

\* A MemStorage server after both customers bought product 1; nobody is
\* logged in and no review is written yet.
ReviewInit ==
  /\ env = [DB_TYPE |-> UNSET, DATABASE_URL |-> UNSET, MYSQL_DATABASE |-> UNSET]
  /\ pgUp = FALSE
  /\ mysqlUp = FALSE
  /\ phase = "running"
  /\ bootUp = [pg |-> FALSE, mysql |-> FALSE]
  /\ dbType = getDatabaseType(env)
  /\ storage = storageInstance(getDatabaseType(env))
  /\ served = 0
  /\ StoreIdle
  /\ data = addOrderItem(createOrder(addOrderItem(createOrder(
              [EmptyData EXCEPT
                 !.users = ReviewUsers, !.userIdCounter = 5,
                 !.sellers = {[id |-> 1, user_id |-> 2]}, !.sellerIdCounter = 2,
                 !.products = {[id |-> 1, seller_id |-> 1, status |-> "active",
                                price |-> 1, stock |-> 1]},
                 !.productIdCounter = 2],
              3, 1), 1, 1, 1, 1), 4, 1), 2, 1, 1, 1)
  /\ session = [c \in Clients |-> 0]
  /\ resp = [tick |-> 0, client |-> 0, route |-> "none", status |-> 0,
             ran |-> FALSE, arg |-> NoArg]
  /\ req = [c \in Clients |-> NoRequest]

ReviewNext ==
  \/ \E c \in Browsers, u \in ReviewUsers : Login(c, u.username, u.password)
  \/ \E c \in Browsers : Logout(c)
  \/ \E c \in Browsers, productId \in 0..MaxProducts + 1, valid \in BOOLEAN :
       CreateReview(c, productId, valid)
  \/ \E c \in Browsers, id \in 1..MaxReviews : DeleteReview(c, id)

SpecReview == ReviewInit /\ [][ReviewNext]_vars

\* C12: a DELETE /api/reviews/:id request for a stored review removes it
\* when the requester is the customer who wrote it or an admin, and leaves
\* it in storage when the requester is any other user or not logged in.
C12_ReviewDeletedByOwnerOrAdmin ==
  [][\A c \in Clients :
       LET id == resp'.arg.id
           review == getReview(data, id)
           user == getUser(data, session[c])
       IN (/\ resp'.tick # resp.tick
           /\ resp'.client = c
           /\ resp'.route = "DELETE /api/reviews/:id"
           /\ review # NoReview)
          => IF session[c] # 0
                /\ (user.role = "admin" \/ review.customer_id = user.id)
               THEN review \notin data'.reviews
               ELSE review \in data'.reviews]_vars

-----------------------------------------------------------------------------
\* scripts/seed-data.ts: the test users, written through storage.createUser.

\* The salts bcrypt may draw.
Salts == {"saltA", "saltB"}

\* bcrypt.hash(password, 10): the string "$2b$10$" followed by the salt and
\* the digest of salt and password (the digest stands as the password
\* itself: distinct inputs give distinct strings).
bcrypt_hash(password, salt) == "$2b$10$" \o salt \o password

\* hashPassword of the seed script
seedHashPassword(password, salt) == bcrypt_hash(password, salt)

\* testUsers of createTestUsers, in the order of the script, with the
\* passwords before hashing.
testUsers ==
  << [username |-> "admin", password |-> "admin123", role |-> "admin"],
     [username |-> "seller1", password |-> "seller123", role |-> "seller"],
     [username |-> "seller2", password |-> "seller123", role |-> "seller"],
     [username |-> "customer1", password |-> "customer123", role |-> "customer"] >>

\* The users table has a row with this username.
Seeded(d, username) == \E u \in d.users : u.username = username

\* One round of the loop of createTestUsers: user i is inserted with the
\* hashed password.  The insert of a username that is already there fails
\* on the unique constraint; the error is logged and the loop goes on.
SeedUser(i, salt) ==
  /\ StorageAnswers
  /\ \A j \in 1..(i - 1) : Seeded(data, testUsers[j].username)
  /\ ~Seeded(data, testUsers[i].username)
  /\ data' = createUser(data, testUsers[i].username,
                        seedHashPassword(testUsers[i].password, salt),
                        testUsers[i].role)
  /\ UNCHANGED <<session, resp, req>>
  /\ UNCHANGED backendVars
  /\ UNCHANGED storeVars

\* The server on the PostgreSQL database the seed script writes to.
SeedInit ==
  /\ env = [DB_TYPE |-> UNSET, DATABASE_URL |-> "postgres://db",
            MYSQL_DATABASE |-> UNSET]
  /\ pgUp = TRUE
  /\ mysqlUp = FALSE
  /\ phase = "running"
  /\ bootUp = [pg |-> TRUE, mysql |-> FALSE]
  /\ dbType = getDatabaseType(env)
  /\ storage = storageInstance(getDatabaseType(env))
  /\ served = 0
  /\ StoreIdle
  /\ HttpIdle

SeedNext ==
  \/ \E i \in 1..Len(testUsers), salt \in Salts : SeedUser(i, salt)
  \/ \E c \in Browsers : Register(c, "alice", "secret", "", FALSE)
  \/ \E c \in Browsers, i \in 1..Len(testUsers) :
       Login(c, testUsers[i].username, testUsers[i].password)
  \/ \E c \in Browsers : Login(c, "alice", "secret")
  \/ \E c \in Browsers : Logout(c)

SpecSeed == SeedInit /\ [][SeedNext]_vars

\* C13: once the seed script has created a default user, POST /api/login
\* with that username and the documented password (admin / admin123 among
\* them) authenticates: it answers 200 and the session is the user's.
C13_SeededUsersCanLogIn ==
  [][\A i \in 1..Len(testUsers) :
       (/\ resp'.tick # resp.tick
        /\ resp'.route = "POST /api/login"
        /\ resp'.arg.username = testUsers[i].username
        /\ resp'.arg.password = testUsers[i].password
        /\ Seeded(data, testUsers[i].username))
       => /\ resp'.status = 200
          /\ getUser(data, session'[resp'.client]).username
               = testUsers[i].username]_vars

-----------------------------------------------------------------------------
\* Two users check out at the same time.

\* The product both carts hold.
StockProducts ==
  { [id |-> 1, seller_id |-> 1, status |-> "active", price |-> 2,
     stock |-> MaxQuantity] }

\* The tables after the user of every client has put quantity[c] pieces of
\* product 1 into a cart of their own.
RECURSIVE WithCarts(_, _, _)
WithCarts(d, quantity, c) ==
  IF c > NumClients THEN d
  ELSE WithCarts(addCartItem(createCart(d, OrderSessions[c]),
                             d.cartIdCounter, 1, quantity[c]),
                 quantity, c + 1)

\* Both clients are logged in and hold a filled cart; no request is in
\* flight.
StockInit ==
  /\ env \in OrderEnvs
  /\ pgUp = TRUE
  /\ mysqlUp = FALSE
  /\ phase = "running"
  /\ bootUp = [pg |-> TRUE, mysql |-> FALSE]
  /\ dbType = getDatabaseType(env)
  /\ storage = storageInstance(getDatabaseType(env))
  /\ served = 0
  /\ StoreIdle
  /\ \E quantity \in [Clients -> 1..MaxQuantity] :
       data = WithCarts([EmptyData EXCEPT
                           !.users = GuardUsers, !.userIdCounter = 4,
                           !.sellers = {[id |-> 1, user_id |-> 2]},
                           !.sellerIdCounter = 2,
                           !.products = StockProducts,
                           !.productIdCounter = 2],
                        quantity, 1)
  /\ session = OrderSessions
  /\ resp = [tick |-> 0, client |-> 0, route |-> "none", status |-> 0,
             ran |-> FALSE, arg |-> NoArg]
  /\ req = [c \in Clients |-> NoRequest]

\* The POST /api/orders requests of the clients, interleaved at every await.
StockNext ==
  \/ \E c \in Clients : PostOrders(c)
  \/ \E c \in Clients : OrderGetCartItems(c)
  \/ \E c \in Clients : OrderVerifyStock(c)
  \/ \E c \in Clients : OrderCreateOrder(c, NoBody)
  \/ \E c \in Clients : OrderGetProduct(c)
  \/ \E c \in Clients : OrderAddOrderItem(c)
  \/ \E c \in Clients : OrderUpdateProduct(c)
  \/ \E c \in Clients : OrderCreatePayment(c)
  \/ \E c \in Clients : OrderCreateShipment(c)
  \/ \E c \in Clients : OrderRemoveCartItem(c)
  \/ \E c \in Clients : OrderRespond(c)

SpecStock == StockInit /\ [][StockNext]_vars

\* The quantities of the rows added up.
RECURSIVE SumQuantity(_)
SumQuantity(rows) ==
  IF rows = {} THEN 0
  ELSE LET r == CHOOSE x \in rows : TRUE
       IN r.quantity + SumQuantity(rows \ {r})

\* C14: whatever the interleaving of the POST /api/orders requests of
\* different users, the stock of every product stays >= 0 and the quantity
\* recorded in order items for it is at most the stock it had before.
C14_StockNeverOversold ==
  \A p \in data.products :
    /\ p.stock >= 0
    /\ \A before \in StockProducts :
         before.id = p.id =>
           SumQuantity({i \in data.orderItems : i.product_id = p.id})
             <= before.stock

-----------------------------------------------------------------------------
\* What POST /api/orders stores in the order row.

\* The rows a step added to a table: those with an id that was not there.
Added(before, after) == {r \in after : \A b \in before : b.id # r.id}

\* C15: whatever the body of POST /api/orders holds, the order it stores
\* has as total_price the sum of price times quantity the handler computed
\* over the cart items, and the payment created for the order has that
\* total_price as amount.
C15_TotalPriceIsComputedByServer ==
  [][\A c \in Clients :
       /\ (req[c].pc = "createOrder" /\ req'[c] # req[c]) =>
            \A o \in Added(data.orders, data'.orders) :
              o.total_price = req[c].totalPrice
       /\ (req[c].pc = "createPayment" /\ req'[c] # req[c]) =>
            \A pay \in Added(data.payments, data'.payments) :
              \A o \in data.orders :
                o.id = pay.order_id => pay.amount = o.total_price]_vars

\* C16: whatever the body of POST /api/orders holds, the order it stores
\* has as customer_id the id of the authenticated user who sent the request.
C16_OrderBelongsToRequester ==
  [][\A c \in Clients :
       (req[c].pc = "createOrder" /\ req'[c] # req[c]) =>
         \A o \in Added(data.orders, data'.orders) :
           /\ session[c] # 0
           /\ o.customer_id = session[c]]_vars

-----------------------------------------------------------------------------
\* Rejected checkouts.

\* The request of client c is at the point where POST /api/orders rejects
\* the checkout: the user has no cart, the cart has no items, or the cart
\* item the verification loop looks at names a product that is gone or has
\* less stock than the item's quantity.
CheckoutIsRejected(c) ==
  LET r == req[c]
      s == deserializeUser(data, session[c])
  IN \/ /\ r.pc = "idle"
        /\ ~s.err
        /\ s.user # NoUser
        /\ getCartByUserId(data, s.user.id) = 0
     \/ /\ r.pc = "getCartItems"
        /\ StorageAnswers
        /\ Len(getCartItems(data, r.cart)) = 0
     \/ /\ r.pc = "verifyStock"
        /\ StorageAnswers
        /\ LET item == r.cartItems[r.i]
               product == getProduct(data, item.product_id)
           IN product = NoProduct \/ product.stock < item.quantity

\* C17: a POST /api/orders request that finds no cart, an empty cart, a
\* cart item without product or one with more pieces than the stock answers
\* 400, and neither that step nor any step the request made before it
\* writes to storage: orders, order items, payments, shipments, products
\* and cart items are left as they were.
C17_RejectedCheckoutChangesNothing ==
  [][\A c \in Clients :
       LET r == req[c]
       IN /\ (req'[c] # r /\ CheckoutIsRejected(c)) =>
               /\ req'[c].pc = "respond"
               /\ req'[c].status = 400
               /\ req'[c].writes = << >>
               /\ data' = data
          /\ (req'[c] # r /\ r.pc \in {"idle", "getCartItems", "verifyStock"}) =>
               /\ r.writes = << >>
               /\ data' = data
          /\ (r.pc = "respond" /\ req'[c] # r) => data' = data]_vars

\* A checkout was rejected at its first cart item because the product had
\* been deleted: the request answers 400 and the item is still in the cart.
C17_Witness ==
  \E c \in Clients :
    /\ req[c].pc = "respond"
    /\ req[c].status = 400
    /\ req[c].order = 0
    /\ req[c].writes = << >>
    /\ req[c].cartItems # << >>
    /\ req[c].i = 1
    /\ req[c].totalPrice = 0
    /\ getProduct(data, req[c].cartItems[1].product_id) = NoProduct
    /\ \E it \in data.cartItems : it.id = req[c].cartItems[1].id
    /\ data.orders = {}

-----------------------------------------------------------------------------
\* Approval and ownership of products.

\* C18: a product a seller creates is stored with status 'pending', one an
\* admin creates with status 'active', and the status of a product goes
\* from 'pending' to 'active' only in a request sent by an admin.
C18_SellerProductsNeedApproval ==
  [][/\ \A p \in Added(data.products, data'.products) :
          \E c \in Clients :
            /\ ActedBy(c)
            /\ RoleOf(c) = "seller" => p.status = "pending"
            /\ RoleOf(c) = "admin" => p.status = "active"
     /\ \A p \in data.products, q \in data'.products :
          (q.id = p.id /\ p.status = "pending" /\ q.status = "active") =>
            \E c \in Clients : ActedBy(c) /\ RoleOf(c) = "admin"]_vars

\* The three routes that modify one product.
ProductRoutes ==
  {"PUT /api/products/:id", "DELETE /api/products/:id",
   "POST /api/products/:productId/categories"}

\* C19: PUT and DELETE /api/products/:id and POST
\* /api/products/:productId/categories sent by a seller for a product of
\* another seller profile (or by a seller without profile) answer 403 and
\* leave the products and the category assignments as they were; and no
\* request of a seller changes the seller_id of a product.
C19_SellerModifiesOnlyOwnProducts ==
  [][\A c \in Clients :
       (ActedBy(c) /\ RoleOf(c) = "seller") =>
         /\ LET product == getProduct(data, resp'.arg.id)
            IN (/\ resp'.tick # resp.tick
                /\ resp'.route \in ProductRoutes
                /\ resp'.status \notin {400, 404}
                /\ product # NoProduct
                /\ SellerOfOtherProduct(data, getUser(data, session[c]), product))
               => /\ resp'.status = 403
                  /\ data'.products = data.products
                  /\ data'.productCategories = data.productCategories
         /\ \A p \in data.products, q \in data'.products :
              q.id = p.id => q.seller_id = p.seller_id]_vars

====
